---- MODULE Spec2Model ----
(***************************************************************************)
(* Model of the marimo example notebooks of ai-browser-test:               *)
(*   examples/marimo/config.py                  AppSettings                *)
(*   examples/marimo/multi_modal_validation.py                             *)
(*   examples/marimo/persona_testing.py                                    *)
(*                                                                         *)
(* A run is either a notebook executed from its first cell (nb =           *)
(* "multi_modal", "persona"), which ends at the cell that builds the mock  *)
(* data: that statement is a set display holding a dict and raises         *)
(* TypeError, so the cells after it never get their input; or the display  *)
(* cells of a notebook called directly with a payload (nb =                *)
(* "multi_modal_cells", "persona_cells").                                  *)
(*                                                                         *)
(* Python values are modelled as tagged records so that values of          *)
(* different Python types stay comparable:                                 *)
(*   a dict entry holding a number   [tag |-> "num",     val |-> n]        *)
(*   a dict entry holding None       [tag |-> "none",    val |-> 0]        *)
(*   a key that is not in the dict   [tag |-> "missing", val |-> 0]        *)
(* and likewise for strings (tag "str") and lists (tag "list").            *)
(* Numbers in the multi-modal payload are Python ints; a true division     *)
(* sum/len is kept as the reduced fraction num/den.                        *)
(***************************************************************************)
EXTENDS Integers, Sequences, FiniteSets, TLC

VARIABLES
    result,        \* multi-modal: the payload dict (mock_result)
    mm_pc,         \* multi-modal: "unbound" (no mock_result), "TypeError", or, with
                   \* mock_result bound, "start", "summary", "details"
    avg_score,     \* multi-modal Step 2: avg_score
    summary,       \* multi-modal Step 2: the "Multi-Perspective Evaluation" block
    details,       \* multi-modal Step 3: "Perspective Details" markdown
    agg_listing,   \* multi-modal Step 3: "Aggregated Issues" markdown
    results,       \* persona: the list of PersonaExperienceResult dicts
    p_pc,          \* persona: "unbound", "setup", "configured", "TypeError", or,
                   \* with results bound, "start", "table", "reports"
    df,            \* persona Step 3: the results table (or the exception raised)
    reports,       \* persona Step 4: the per-persona markdown (or the exception)
    settings,      \* config: the three key fields of AppSettings
    environ,       \* persona: the API-key variables of os.environ
    c_pc,          \* config: which cell ran last
    API_KEY,       \* API_KEY of the setup cell
    config_msg,    \* config: what "Setup: Check configuration" printed
    has_key,       \* config: the value read from settings.has_api_key
    nb             \* which notebook this run executes

mm_vars == <<result, mm_pc, avg_score, summary, details, agg_listing>>
p_vars == <<results, p_pc, df, reports>>
c_vars == <<settings, environ, c_pc, API_KEY, config_msg, has_key>>
vars == <<mm_vars, p_vars, c_vars, nb>>

\* ---------------------------------------------------------------- bounds
MaxLen == 2        \* longest perspectives list considered

\* ---------------------------------------------------------------- Python values
NoKey == [tag |-> "missing", val |-> 0]
PyNone == [tag |-> "none", val |-> 0]
Num(n) == [tag |-> "num", val |-> n]
NoStr == [tag |-> "missing", val |-> ""]
Str(s) == [tag |-> "str", val |-> s]
NoList == [tag |-> "missing", val |-> <<>>]
List(l) == [tag |-> "list", val |-> l]

\* A Python float or None: num/den in lowest terms.
NoneF == [tag |-> "none", num |-> 0, den |-> 1]
RECURSIVE GCD(_, _)
GCD(a, b) == IF b = 0 THEN a ELSE GCD(b, a % b)
Frac(n, d) == LET g == GCD(n, d) IN [tag |-> "num", num |-> n \div g, den |-> d \div g]

\* dict.get(key, default) on an entry of the modelled dict
DictGet(entry, default) == IF entry.tag = "missing" THEN default ELSE entry

\* sum(list of ints)
RECURSIVE PySum(_)
PySum(s) == IF s = <<>> THEN 0 ELSE Head(s) + PySum(Tail(s))

\* floor(log2(num/den)), for num, den > 0
RECURSIVE Log2Floor(_, _)
Log2Floor(num, den) ==
    IF num >= 2 * den THEN Log2Floor(num, 2 * den) + 1
    ELSE IF num < den THEN Log2Floor(2 * num, den) - 1
    ELSE 0

\* 2^s mod m
RECURSIVE Pow2Mod(_, _)
Pow2Mod(s, m) == IF s = 0 THEN 1 % m ELSE (2 * Pow2Mod(s - 1, m)) % m

\* The sign of float(num/den) - num/den: the true division rounds num/den to
\* a 53-bit mantissa m = round-half-even(num * 2^s / den), 2^52 <= m < 2^53.
FloatError(num, den) ==
    IF num = 0 THEN 0
    ELSE LET s == 52 - Log2Floor(num, den)
             r == ((num % den) * Pow2Mod(s, den)) % den
             r2 == ((num % (2 * den)) * Pow2Mod(s, 2 * den)) % (2 * den)
         IN  IF r = 0 THEN 0
             ELSE IF 2 * r < den THEN -1
             ELSE IF 2 * r > den THEN 1
             ELSE IF r2 >= den THEN 1 ELSE -1

\* f"{x:.1f}" of the float x = num/den >= 0, as a count of tenths: the float
\* is rounded correctly to one decimal, so a decimal tie of num/den is broken
\* by the float's own error (0.05 is stored above 1/20 and prints 0.1), and
\* half-to-even only when the float is exact (0.25 prints 0.2).
Fmt1(num, den) ==
    LET q == (10 * num) \div den
        r == (10 * num) % den
    IN  IF 2 * r < den THEN q
        ELSE IF 2 * r > den THEN q + 1
        ELSE IF FloatError(num, den) < 0 THEN q
        ELSE IF FloatError(num, den) > 0 THEN q + 1
        ELSE IF q % 2 = 0 THEN q ELSE q + 1

\* ---------------------------------------------------------------- payloads
ScoreEntries == {NoKey, PyNone, Num(0), Num(2)}
IssueEntries == {NoList, List(<<>>), List(<<"y", "x">>)}
NoEvaluation == [tag |-> "missing", score |-> NoKey, issues |-> NoList]
EvaluationEntries ==
    {NoEvaluation} \cup
    {[tag |-> "dict", score |-> s, issues |-> i] : s \in ScoreEntries, i \in IssueEntries}
PersonaEntries == {NoStr, Str("Design Critic")}
Perspectives ==
    [persona : PersonaEntries, focus : {Str("aesthetics")}, evaluation : EvaluationEntries]
SeqsUpTo(S, n) == UNION {[1..k -> S] : k \in 0..n}
PerspectiveLists == {NoList} \cup {List(l) : l \in SeqsUpTo(Perspectives, MaxLen)}
AggregatedScores == {NoKey, PyNone, Num(0), Num(1)}
AggregatedIssues == {NoList, List(<<>>), List(<<"x", "x">>), List(<<"y", "x">>)}
Payloads ==
    [perspectives : PerspectiveLists,
     aggregatedScore : AggregatedScores,
     aggregatedIssues : AggregatedIssues]

\* ---------------------------------------------------------------- Step 1
\* The cell builds node_script, prints three lines and then evaluates
\* mock_result = {{ ... }}: a set display whose element is a dict, which raises
\* TypeError (unhashable type: 'dict'). mock_result is never bound.
CreateValidationScript ==
    /\ nb = "multi_modal"
    /\ c_pc # "start"
    /\ mm_pc = "unbound"
    /\ mm_pc' = "TypeError"
    /\ UNCHANGED <<result, avg_score, summary, details, agg_listing, p_vars, c_vars, nb>>

\* ---------------------------------------------------------------- Step 2
\* p.get("evaluation", {}).get("score")
EvalScore(p) == DictGet(p.evaluation.score, PyNone)

\* Variant: the "is not None" filter is dropped, a None score counting as 0.
RECURSIVE perspective_scores_KeepsNone(_)
perspective_scores_KeepsNone(ps) ==
    IF ps = <<>> THEN <<>>
    ELSE <<EvalScore(Head(ps)).val>> \o perspective_scores_KeepsNone(Tail(ps))

\* [p["evaluation"]["score"] for p in ... if p.get("evaluation", {}).get("score") is not None]
RECURSIVE perspective_scores(_)
perspective_scores(ps) ==
    IF ps = <<>> THEN <<>>
    ELSE IF EvalScore(Head(ps)).tag # "none"
         THEN <<EvalScore(Head(ps)).val>> \o perspective_scores(Tail(ps))
         ELSE perspective_scores(Tail(ps))

\* Variant: an empty score list averages to 0 instead of None.
MeanOrNone_ZeroWhenEmpty(scores) ==
    IF scores # <<>> THEN Frac(PySum(scores), Len(scores)) ELSE Frac(0, 1)

\* sum(perspective_scores) / len(perspective_scores) if perspective_scores else None
MeanOrNone(scores) ==
    IF scores # <<>> THEN Frac(PySum(scores), Len(scores)) ELSE NoneF

\* Variant: "is not None" instead of truthiness, so that 0 counts as present.
Truthy_IsNotNone(v) == v.tag = "num"

\* Python truthiness of a number-or-None value
Truthy(v) == v.tag = "num" /\ v.val # 0

\* result.get("aggregatedScore") or (<mean> if perspective_scores else None)
AvgScore(r) ==
    LET agg == DictGet(r.aggregatedScore, PyNone)
        ps == DictGet(r.perspectives, List(<<>>)).val
    IN  IF Truthy(agg) THEN Frac(agg.val, 1) ELSE MeanOrNone(perspective_scores(ps))

\* f"{avg_score:.1f}/10" if avg_score is not None else "N/A"
ScoreDisplay(avg) ==
    IF avg.tag # "none"
    THEN [text |-> "tenths/10", tenths |-> Fmt1(avg.num, avg.den)]
    ELSE [text |-> "N/A", tenths |-> 0]

\* Variant: the perspective count is the number of scored perspectives.
Summary_CountsScored(r) ==
    [perspectives |-> Len(perspective_scores(DictGet(r.perspectives, List(<<>>)).val)),
     score |-> ScoreDisplay(AvgScore(r)),
     issues |-> Len(DictGet(r.aggregatedIssues, List(<<>>)).val)]

\* the "Multi-Perspective Evaluation" block of the markdown
Summary(r) ==
    [perspectives |-> Len(DictGet(r.perspectives, List(<<>>)).val),
     score |-> ScoreDisplay(AvgScore(r)),
     issues |-> Len(DictGet(r.aggregatedIssues, List(<<>>)).val)]

DisplayResults ==
    /\ mm_pc = "start"
    /\ avg_score' = AvgScore(result)
    /\ summary' = Summary(result)
    /\ mm_pc' = "summary"
    /\ UNCHANGED <<result, details, agg_listing, p_vars, c_vars, nb>>

\* ---------------------------------------------------------------- Step 3
\* score = eval_data.get("score", "N/A")
\* score_str = f"{score:.1f}/10" if isinstance(score, (int, float)) else str(score)
ScoreStr(eval_data) ==
    LET score == DictGet(eval_data.score, [tag |-> "N/A", val |-> 0])
    IN  IF score.tag = "num"
        THEN [text |-> "tenths/10", tenths |-> Fmt1(score.val, 1)]
        ELSE IF score.tag = "none"
        THEN [text |-> "None", tenths |-> 0]
        ELSE [text |-> "N/A", tenths |-> 0]

\* chr(10).join(f"  - {issue}" for issue in issues) if issues else "  - None"
IssuesText(issues) ==
    IF issues # <<>> THEN [marker |-> "", items |-> issues]
    ELSE [marker |-> "  - None", items |-> <<>>]

PerspectiveText(p) ==
    LET eval_data == p.evaluation
        issues == DictGet(eval_data.issues, List(<<>>)).val
    IN  [heading |-> DictGet(p.persona, Str("Unknown")).val,
         score |-> ScoreStr(eval_data),
         focus |-> DictGet(p.focus, Str("N/A")).val,
         issues |-> Len(issues),
         issues_text |-> IssuesText(issues)]

NotShown == [shown |-> FALSE, body |-> <<>>]
Shown(b) == [shown |-> TRUE, body |-> b]

\* Variant: perspectives without a "persona" are left out of the details.
RECURSIVE NamedOnly(_)
NamedOnly(ps) ==
    IF ps = <<>> THEN <<>>
    ELSE IF Head(ps).persona.tag = "missing" THEN NamedOnly(Tail(ps))
         ELSE <<Head(ps)>> \o NamedOnly(Tail(ps))
PerspectiveDetails_SkipsUnnamed(r) ==
    LET ps == NamedOnly(DictGet(r.perspectives, List(<<>>)).val)
    IN  IF ps # <<>> THEN Shown([i \in 1..Len(ps) |-> PerspectiveText(ps[i])])
        ELSE NotShown

\* if result.get("perspectives"): ... mo.md("## Perspective Details" ...)
PerspectiveDetails(r) ==
    LET ps == DictGet(r.perspectives, List(<<>>)).val
    IN  IF ps # <<>> THEN Shown([i \in 1..Len(ps) |-> PerspectiveText(ps[i])])
        ELSE NotShown

\* Variant: repeated issues are listed once.
RECURSIVE Dedup(_)
Dedup(l) ==
    IF l = <<>> THEN <<>>
    ELSE LET front == Dedup(SubSeq(l, 1, Len(l) - 1))
         IN  IF \E i \in 1..(Len(l) - 1) : l[i] = l[Len(l)] THEN front
             ELSE Append(front, l[Len(l)])
AggregatedListing_Dedup(r) ==
    LET ai == Dedup(DictGet(r.aggregatedIssues, List(<<>>)).val)
    IN  IF ai # <<>> THEN Shown(ai) ELSE NotShown

\* if result.get("aggregatedIssues"): mo.md("### Aggregated Issues" ...)
AggregatedListing(r) ==
    LET ai == DictGet(r.aggregatedIssues, List(<<>>)).val
    IN  IF ai # <<>> THEN Shown(ai) ELSE NotShown

DetailedAnalysis ==
    /\ mm_pc = "summary"
    /\ details' = PerspectiveDetails(result)
    /\ agg_listing' = AggregatedListing(result)
    /\ mm_pc' = "details"
    /\ UNCHANGED <<result, avg_score, summary, p_vars, c_vars, nb>>

\* ================================================================ persona_testing.py
\* Scores and response times of this notebook are on the 0-1 scale and are
\* kept in hundredths (0.75 is 75).
GreenFrom == 80     \* score >= 0.8
OrangeFrom == 60    \* score >= 0.6
NotesShown == 5     \* notes[:5]

PScoreEntries == {PyNone, Num(70), Num(90)}
PIssueEntries == {NoList, List(<<>>), List(<<"Minor accessibility concern">>)}
NoPEvaluation ==
    [tag |-> "missing", score |-> NoKey, issues |-> NoList, responseTime |-> NoKey]
PEvaluationEntries ==
    {NoPEvaluation} \cup
    {[tag |-> "dict", score |-> s, issues |-> i, responseTime |-> Num(250)] :
        s \in PScoreEntries, i \in PIssueEntries}
NoPersona == [tag |-> "missing", name |-> NoStr, perspective |-> NoStr, focus |-> NoList]
MockFocus == List(<<"wcag-compliance", "keyboard-navigation">>)
PersonaDicts ==
    {[tag |-> "dict", name |-> n, perspective |-> Str("accessibility"), focus |-> MockFocus] :
        n \in {NoStr, Str("Accessibility Advocate"), Str("Mobile User")}}
    \cup {[tag |-> "dict", name |-> Str("Mobile User"), perspective |-> NoStr,
           focus |-> MockFocus],
          [tag |-> "dict", name |-> Str("Mobile User"), perspective |-> Str("accessibility"),
           focus |-> NoList]}
MockNotes ==
    List(<<[observation |-> Str("Arrived at page"), step |-> Str("initial_experience")],
           [observation |-> NoStr, step |-> Str("reading")]>>)
PersonaResults ==
    [persona : {NoPersona} \cup PersonaDicts,
     evaluation : PEvaluationEntries,
     notes : {MockNotes},
     screenshots : {List(<<"page-load">>)}]
ResultLists == SeqsUpTo(PersonaResults, MaxLen)

\* r["persona"]["name"] raises KeyError when either key is missing
HasName(r) == r.persona.tag = "dict" /\ r.persona.name.tag = "str"
\* r["persona"]["perspective"], result["persona"]["focus"] likewise
HasPerspective(r) == r.persona.tag = "dict" /\ r.persona.perspective.tag = "str"
HasFocus(r) == r.persona.tag = "dict" /\ r.persona.focus.tag = "list"

\* f"{score:.2f}" if r.get("evaluation", {}).get("score") is not None else "N/A"
TableScore(r) ==
    LET score == DictGet(r.evaluation.score, PyNone)
    IN  IF score.tag # "none" THEN [text |-> "hundredths", hundredths |-> score.val]
        ELSE [text |-> "N/A", hundredths |-> 0]

\* one dict of the list comprehension handed to pd.DataFrame
TableRow(r) ==
    [Persona |-> r.persona.name.val,
     Perspective |-> r.persona.perspective.val,
     Score |-> TableScore(r),
     Issues |-> Len(DictGet(r.evaluation.issues, List(<<>>)).val),
     Notes |-> Len(DictGet(r.notes, List(<<>>)).val),
     Screenshots |-> Len(DictGet(r.screenshots, List(<<>>)).val),
     Duration |-> DictGet(r.evaluation.responseTime, [tag |-> "N/A", val |-> 0])]

Raised(e, b) == [error |-> e, body |-> b]
Produced(b) == [error |-> "", body |-> b]

\* df = pd.DataFrame([{...} for r in results])
ResultsTable(rs) ==
    IF \A i \in 1..Len(rs) : HasName(rs[i]) /\ HasPerspective(rs[i])
    THEN Produced([i \in 1..Len(rs) |-> TableRow(rs[i])])
    ELSE Raised("KeyError", <<>>)

DisplayPersonaResults ==
    /\ p_pc = "start"
    /\ df' = ResultsTable(results)
    /\ p_pc' = "table"
    /\ UNCHANGED <<results, reports, mm_vars, c_vars, nb>>

\* score_display of Step 4
PersonaScoreDisplay(evaluation) ==
    LET score == DictGet(evaluation.score, PyNone)
    IN  IF score.tag # "none"
        THEN [text |-> "hundredths/1.0", hundredths |-> score.val,
              color |-> IF score.val >= GreenFrom THEN "green"
                        ELSE IF score.val >= OrangeFrom THEN "orange" ELSE "red"]
        ELSE [text |-> "N/A", hundredths |-> 0, color |-> ""]

\* note.get('observation', note.get('step', 'Unknown')) for note in notes[:5]
NoteLines(notes) ==
    [i \in 1..(IF Len(notes) < NotesShown THEN Len(notes) ELSE NotesShown) |->
        DictGet(notes[i].observation, DictGet(notes[i].step, Str("Unknown"))).val]

\* chr(10).join(f"- {issue}" for issue in issues) if issues else "None"
PersonaIssuesText(issues) ==
    IF issues # <<>> THEN [marker |-> "", items |-> issues]
    ELSE [marker |-> "None", items |-> <<>>]

PersonaReport(r) ==
    LET evaluation == r.evaluation
        notes == DictGet(r.notes, List(<<>>)).val
        issues == DictGet(evaluation.issues, List(<<>>)).val
    IN  [heading |-> r.persona.name.val,
         score |-> PersonaScoreDisplay(evaluation),
         perspective |-> r.persona.perspective.val,
         focus |-> r.persona.focus.val,
         notes |-> Len(notes),
         note_lines |-> NoteLines(notes),
         more_notes |-> IF Len(notes) > NotesShown THEN "..." ELSE "",
         issues |-> Len(issues),
         issues_text |-> PersonaIssuesText(issues),
         screenshots |-> Len(DictGet(r.screenshots, List(<<>>)).val)]

\* index of the first result on which an iteration raises KeyError (its
\* persona name, perspective or focus is missing), 0 if none
RECURSIVE FirstKeyError(_, _)
FirstKeyError(rs, i) ==
    IF i > Len(rs) THEN 0
    ELSE IF ~(HasName(rs[i]) /\ HasPerspective(rs[i]) /\ HasFocus(rs[i])) THEN i
    ELSE FirstKeyError(rs, i + 1)

\* for result in results: ... mo.md(...)   (the loop stops at the first KeyError)
PersonaReports(rs) ==
    LET bad == FirstKeyError(rs, 1)
    IN  IF bad = 0 THEN Produced([i \in 1..Len(rs) |-> PersonaReport(rs[i])])
        ELSE Raised("KeyError", [i \in 1..(bad - 1) |-> PersonaReport(rs[i])])

DetailedPersonaAnalysis ==
    /\ p_pc = "table"
    /\ reports' = PersonaReports(results)
    /\ p_pc' = "reports"
    /\ UNCHANGED <<results, df, mm_vars, c_vars, nb>>

\* ================================================================ config.py
NoneStr == [tag |-> "none", val |-> ""]
KeyValues(k) == {NoneStr, Str(""), Str(k)}
Settings ==
    [gemini_api_key : KeyValues("gemini-key"),
     openai_api_key : KeyValues("openai-key"),
     anthropic_api_key : KeyValues("anthropic-key")]

\* Python truthiness of a str-or-None value
TruthyStr(v) == v.tag = "str" /\ v.val # ""

\* a or b
PyOr(a, b) == IF TruthyStr(a) THEN a ELSE b

\* AppSettings.api_key
api_key(s) == PyOr(PyOr(s.gemini_api_key, s.openai_api_key), s.anthropic_api_key)

\* AppSettings.has_api_key
has_api_key(s) == api_key(s).tag # "none"

\* settings = AppSettings(); API_KEY = settings.api_key
LoadSettings ==
    /\ nb = "multi_modal"
    /\ c_pc = "start"
    /\ API_KEY' = api_key(settings)
    /\ c_pc' = "loaded"
    /\ UNCHANGED <<settings, environ, config_msg, has_key, mm_vars, p_vars, nb>>

\* if not API_KEY: print("Warning: No API key found") else: print("API key configured")
CheckConfiguration ==
    /\ nb = "multi_modal"
    /\ c_pc = "loaded"
    /\ config_msg' = IF ~TruthyStr(API_KEY) THEN "No API key found"
                     ELSE "API key configured"
    /\ c_pc' = "checked"
    /\ UNCHANGED <<settings, environ, API_KEY, has_key, mm_vars, p_vars, nb>>

\* a read of the property settings.has_api_key
ReadHasApiKey ==
    /\ nb = "multi_modal"
    /\ c_pc # "start"
    /\ has_key = "unread"
    /\ has_key' = IF has_api_key(settings) THEN "True" ELSE "False"
    /\ UNCHANGED <<settings, environ, c_pc, API_KEY, config_msg, mm_vars, p_vars, nb>>

\* persona_testing.py, first cell:
\* API_KEY = os.getenv("GEMINI_API_KEY") or os.getenv("OPENAI_API_KEY")
Environs ==
    [GEMINI_API_KEY : KeyValues("gemini-key"),
     OPENAI_API_KEY : KeyValues("openai-key"),
     ANTHROPIC_API_KEY : KeyValues("anthropic-key")]

PersonaSetup ==
    /\ nb = "persona"
    /\ p_pc = "setup"
    /\ API_KEY' = PyOr(environ.GEMINI_API_KEY, environ.OPENAI_API_KEY)
    /\ p_pc' = "configured"
    /\ UNCHANGED <<settings, environ, c_pc, config_msg, has_key, results, df, reports,
                   mm_vars, nb>>

\* persona_testing.py Step 2: the cell builds node_script, prints, and in the
\* first iteration of its loop evaluates result = {{ ... }}, a set display
\* whose element is a dict: TypeError. results is never returned.
RunPersonaTesting ==
    /\ nb = "persona"
    /\ p_pc = "configured"
    /\ p_pc' = "TypeError"
    /\ UNCHANGED <<results, df, reports, mm_vars, c_vars, nb>>

\* ---------------------------------------------------------------- specification
MMOutputsEmpty ==
    /\ avg_score = NoneF
    /\ summary = [perspectives |-> 0, score |-> ScoreDisplay(NoneF), issues |-> 0]
    /\ details = NotShown
    /\ agg_listing = NotShown

POutputsEmpty ==
    /\ df = Produced(<<>>)
    /\ reports = Produced(<<>>)

CIdle ==
    /\ c_pc = "start"
    /\ API_KEY = NoneStr
    /\ config_msg = ""
    /\ has_key = "unread"

EmptyPayload ==
    [perspectives |-> NoList, aggregatedScore |-> NoKey, aggregatedIssues |-> NoList]
NoSettings ==
    [gemini_api_key |-> NoneStr, openai_api_key |-> NoneStr, anthropic_api_key |-> NoneStr]
NoEnviron ==
    [GEMINI_API_KEY |-> NoneStr, OPENAI_API_KEY |-> NoneStr, ANTHROPIC_API_KEY |-> NoneStr]

\* multi_modal_validation.py run from its first cell, under some settings
InitMultiModal ==
    /\ nb = "multi_modal"
    /\ settings \in Settings /\ environ = NoEnviron
    /\ mm_pc = "unbound" /\ result = EmptyPayload
    /\ p_pc = "unbound" /\ results = <<>>

\* the cells Step 2 and Step 3 called with a payload as their mock_result
InitMultiModalCells ==
    /\ nb = "multi_modal_cells"
    /\ settings = NoSettings /\ environ = NoEnviron
    /\ mm_pc = "start" /\ result \in Payloads
    /\ p_pc = "unbound" /\ results = <<>>

\* persona_testing.py run from its first cell, under some environment
InitPersona ==
    /\ nb = "persona"
    /\ settings = NoSettings /\ environ \in Environs
    /\ mm_pc = "unbound" /\ result = EmptyPayload
    /\ p_pc = "setup" /\ results = <<>>

\* the cells Step 3 and Step 4 called with a list as their results
InitPersonaCells ==
    /\ nb = "persona_cells"
    /\ settings = NoSettings /\ environ = NoEnviron
    /\ mm_pc = "unbound" /\ result = EmptyPayload
    /\ p_pc = "start" /\ results \in ResultLists

Init ==
    /\ MMOutputsEmpty /\ POutputsEmpty /\ CIdle
    /\ \/ InitMultiModal
       \/ InitMultiModalCells
       \/ InitPersona
       \/ InitPersonaCells

Next ==
    \/ LoadSettings
    \/ CheckConfiguration
    \/ ReadHasApiKey
    \/ CreateValidationScript
    \/ DisplayResults
    \/ DetailedAnalysis
    \/ PersonaSetup
    \/ RunPersonaTesting
    \/ DisplayPersonaResults
    \/ DetailedPersonaAnalysis

Spec == Init /\ [][Next]_vars

\* ================================================================ claims
\* What the claims speak of, stated on the inputs themselves.
ThePerspectives == IF result.perspectives.tag = "list" THEN result.perspectives.val ELSE <<>>
ThePayloadIssues ==
    IF result.aggregatedIssues.tag = "list" THEN result.aggregatedIssues.val ELSE <<>>
CarriesScore(p) == p.evaluation.tag = "dict" /\ p.evaluation.score.tag = "num"
Scored == {i \in 1..Len(ThePerspectives) : CarriesScore(ThePerspectives[i])}
RECURSIVE ScoreTotal(_)
ScoreTotal(I) ==
    IF I = {} THEN 0
    ELSE LET i == CHOOSE j \in I : TRUE
         IN  ThePerspectives[i].evaluation.score.val + ScoreTotal(I \ {i})
IsMeanOfScored(avg) ==
    /\ avg.tag = "num"
    /\ avg.num * Cardinality(Scored) = avg.den * ScoreTotal(Scored)
PayloadScoreUsable ==
    result.aggregatedScore.tag = "num" /\ result.aggregatedScore.val # 0
IssuesOf(p) ==
    IF p.evaluation.tag = "dict" /\ p.evaluation.issues.tag = "list"
    THEN p.evaluation.issues.val ELSE <<>>
RECURSIVE ConcatIssues(_)
ConcatIssues(ps) == IF ps = <<>> THEN <<>> ELSE IssuesOf(Head(ps)) \o ConcatIssues(Tail(ps))
ListedIssues == IF agg_listing.shown THEN agg_listing.body ELSE <<>>
Step2Ran == mm_pc \in {"summary", "details"}
TableRan == p_pc \in {"table", "reports"}

\* C1 (as stated): whenever some perspective carries a score, the average
\* reported by Step 2 is the sum of the present scores over their number.
C1_MeanOfPresentScores ==
    (Step2Ran /\ Scored # {}) => IsMeanOfScored(avg_score)

\* C1 (amended): whenever some perspective carries a score and the payload has
\* no usable aggregatedScore (missing, None or 0), the average reported by
\* Step 2 is the sum of the present scores over their number; absent scores
\* count neither in the sum nor in the divisor.
C1_MeanWhenNoPayloadScore ==
    (Step2Ran /\ Scored # {} /\ ~PayloadScoreUsable) => IsMeanOfScored(avg_score)

\* C1 witness: the mean was taken over fewer scores than there are perspectives.
C1_Witness ==
    /\ mm_pc = "summary"
    /\ ~PayloadScoreUsable
    /\ Cardinality(Scored) = 1
    /\ Len(ThePerspectives) = 2
    /\ avg_score = Frac(2, 1)

\* C2 (as stated): the aggregated issue list shown is the concatenation, in
\* input order, of the perspectives' issue lists, and its count is the sum of
\* their lengths.
C2_IssuesAreConcatenation ==
    mm_pc = "details" =>
        /\ ListedIssues = ConcatIssues(ThePerspectives)
        /\ summary.issues = Len(ConcatIssues(ThePerspectives))

\* C2 (amended): the aggregated issue list shown is the payload's own
\* aggregatedIssues list (empty when the key is missing), in payload order with
\* duplicates kept, and the count shown is its length.
C2_IssuesArePayloadList ==
    /\ Step2Ran => summary.issues = Len(ThePayloadIssues)
    /\ mm_pc = "details" =>
        /\ ListedIssues = ThePayloadIssues
        /\ agg_listing.shown <=> ThePayloadIssues # <<>>

\* C2 witness: a payload list with a duplicate was listed, and it is not the
\* concatenation of the perspectives' issues.
C2_Witness ==
    /\ mm_pc = "details"
    /\ agg_listing = Shown(<<"x", "x">>)
    /\ ConcatIssues(ThePerspectives) = <<"y", "x">>

\* C3 (as stated): when no perspective carries a score the average is absent
\* and shown as N/A; for an empty list the issue count and the result count
\* are 0.
C3_AbsentWhenNoScores ==
    (Step2Ran /\ Scored = {}) =>
        /\ avg_score = NoneF
        /\ summary.score.text = "N/A"
        /\ ThePerspectives = <<>> => (summary.perspectives = 0 /\ summary.issues = 0)

\* C3 (amended): when no perspective carries a score and the payload has no
\* usable aggregatedScore, the average is absent (None, not 0) and shown as
\* N/A; for an empty list the result count is 0 and the issue count is the
\* length of the payload's aggregatedIssues.
C3_AbsentWhenNoScoresNoPayloadScore ==
    (Step2Ran /\ Scored = {}) =>
        /\ ~PayloadScoreUsable => (avg_score = NoneF /\ summary.score.text = "N/A")
        /\ ThePerspectives = <<>> =>
            (summary.perspectives = 0 /\ summary.issues = Len(ThePayloadIssues))

\* C3 witness: perspectives without any score and a zero aggregatedScore gave N/A.
C3_Witness ==
    /\ mm_pc = "summary"
    /\ Len(ThePerspectives) = 2
    /\ Scored = {}
    /\ result.aggregatedScore = Num(0)
    /\ summary.score.text = "N/A"

\* C9: the score shown by Step 2 is the payload's aggregatedScore when that is
\* present and non-zero, else the mean of the present perspective scores
\* (to one decimal), and N/A exactly when neither exists.
C9_ScorePrecedence ==
    Step2Ran =>
        /\ PayloadScoreUsable =>
            summary.score = [text |-> "tenths/10", tenths |-> 10 * result.aggregatedScore.val]
        /\ (~PayloadScoreUsable /\ Scored # {}) =>
            /\ summary.score.text = "tenths/10"
            /\ LET d == 10 * ScoreTotal(Scored) - summary.score.tenths * Cardinality(Scored)
               IN  2 * d <= Cardinality(Scored) /\ -2 * d <= Cardinality(Scored)
        /\ summary.score.text = "N/A" <=> (~PayloadScoreUsable /\ Scored = {})

\* C9 witness: the payload score 1 was shown although the perspectives average 2.
C9_Witness ==
    /\ mm_pc = "summary"
    /\ result.aggregatedScore = Num(1)
    /\ Scored # {}
    /\ ScoreTotal(Scored) = 2 * Cardinality(Scored)
    /\ summary.score.tenths = 10

Nameless(r) == r.persona.tag = "missing" \/ r.persona.name.tag = "missing"
NoPerspective(r) == r.persona.tag = "missing" \/ r.persona.perspective.tag = "missing"
NoFocus(r) == r.persona.tag = "missing" \/ r.persona.focus.tag = "missing"
\* the persona of r has the fields the table, resp. the report, reads
TableReady(r) == ~Nameless(r) /\ ~NoPerspective(r)
ReportReady(r) == TableReady(r) /\ ~NoFocus(r)
PScoreAbsent(r) == ~(r.evaluation.tag = "dict" /\ r.evaluation.score.tag = "num")

\* C4: formatting never raises on absent optional fields, an absent score is
\* rendered "N/A" (per result and for the average) and an empty or absent issue
\* list is rendered with the "None" marker.
C4_AbsentFieldsFallBack ==
    /\ (Step2Ran /\ avg_score = NoneF) => summary.score.text = "N/A"
    /\ mm_pc = "details" =>
        \A i \in 1..Len(ThePerspectives) :
            /\ details.shown
            /\ ~CarriesScore(ThePerspectives[i]) => details.body[i].score.text = "N/A"
            /\ IssuesOf(ThePerspectives[i]) = <<>> =>
                   details.body[i].issues_text.marker = "  - None"
    /\ (TableRan /\ \A i \in 1..Len(results) : TableReady(results[i])) =>
        /\ df.error = ""
        /\ \A i \in 1..Len(results) :
               PScoreAbsent(results[i]) => df.body[i].Score.text = "N/A"
    /\ (p_pc = "reports" /\ \A i \in 1..Len(results) : ReportReady(results[i])) =>
        /\ reports.error = ""
        /\ \A i \in 1..Len(results) :
            /\ PScoreAbsent(results[i]) => reports.body[i].score.text = "N/A"
            /\ IssuesOf(results[i]) = <<>> => reports.body[i].issues_text.marker = "None"

\* C5 (as stated): a record lacking its source identifier is rejected by both
\* notebooks; no summary or report that includes it is produced.
C5_UnnamedRejected ==
    /\ (mm_pc = "details" /\ \E i \in 1..Len(ThePerspectives) :
                                ThePerspectives[i].persona.tag = "missing")
           => (~details.shown /\ summary.perspectives = 0)
    /\ (p_pc = "reports" /\ \E i \in 1..Len(results) : Nameless(results[i]))
           => (df.error # "" /\ reports.error # "")

\* C5 (amended): only the persona notebook rejects a record lacking its
\* identifier, by a KeyError: no table is built and the report loop stops at
\* the first record it cannot read, at the latest at the first such record,
\* so that no persona report includes one. The
\* multi-modal notebook counts a perspective lacking "persona" in its summary
\* and lists it, in place, under the placeholder "Unknown".
C5_UnnamedPlaceholderOrKeyError ==
    /\ mm_pc = "details" =>
        \A i \in 1..Len(ThePerspectives) :
            ThePerspectives[i].persona.tag = "missing" =>
                /\ details.shown
                /\ Len(details.body) = Len(ThePerspectives)
                /\ details.body[i].heading = "Unknown"
                /\ summary.perspectives = Len(ThePerspectives)
    /\ (TableRan /\ \E i \in 1..Len(results) : Nameless(results[i])) =>
        df = Raised("KeyError", <<>>)
    /\ (p_pc = "reports" /\ \E i \in 1..Len(results) : Nameless(results[i])) =>
        /\ reports.error = "KeyError"
        /\ Len(reports.body) < Len(results)
        /\ \A i \in 1..Len(reports.body) : ~Nameless(results[i])
        /\ ~ReportReady(results[Len(reports.body) + 1])

\* C5 witness: a perspective without "persona" was listed as "Unknown" after a
\* named one.
C5_Witness ==
    /\ mm_pc = "details"
    /\ Len(ThePerspectives) = 2
    /\ ThePerspectives[1].persona.tag = "str"
    /\ ThePerspectives[2].persona.tag = "missing"
    /\ details.shown
    /\ details.body[2].heading = "Unknown"

\* C6: the result count shown by the multi-modal summary is the length of the
\* perspectives list, scored or not, and the persona table has one row per
\* result, in input order.
C6_ResultCount ==
    /\ Step2Ran => summary.perspectives = Len(ThePerspectives)
    /\ (TableRan /\ \A i \in 1..Len(results) : TableReady(results[i])) =>
        /\ df.error = ""
        /\ Len(df.body) = Len(results)
        /\ \A i \in 1..Len(results) :
            /\ df.body[i].Persona = results[i].persona.name.val
            /\ df.body[i].Issues = Len(IssuesOf(results[i]))
            /\ PScoreAbsent(results[i]) <=> df.body[i].Score.text = "N/A"

\* C6 witness: two perspectives were counted although only one carries a score.
C6_Witness ==
    /\ mm_pc = "summary"
    /\ Cardinality(Scored) = 1
    /\ summary.perspectives = 2

Available(k) == k.tag = "str" /\ k.val # ""
FirstAvailable ==
    IF Available(settings.gemini_api_key) THEN settings.gemini_api_key
    ELSE IF Available(settings.openai_api_key) THEN settings.openai_api_key
    ELSE IF Available(settings.anthropic_api_key) THEN settings.anthropic_api_key
    ELSE NoneStr

\* C7: api_key is the first available key in the order gemini, openai,
\* anthropic, and None when none is available.
C7_FirstAvailableKey ==
    c_pc # "start" => API_KEY = FirstAvailable

\* C8: has_api_key is true exactly when some key is configured, and so agrees
\* with the notebook's "if not API_KEY" check.
C8_HasKeyIffConfigured ==
    (c_pc = "checked" /\ has_key # "unread") =>
        /\ has_key = "True" <=> \E k \in {settings.gemini_api_key, settings.openai_api_key,
                                          settings.anthropic_api_key} : Available(k)
        /\ has_key = "True" <=> config_msg = "API key configured"
====
